---- MODULE Spec2Model ----
(***************************************************************************)
(* Model of sphinx_cmd/commands/rm.py: the "rm" command that deletes .rst  *)
(* pages together with the assets only they reference, and then prunes the *)
(* directories left empty.                                                  *)
(*                                                                         *)
(* A path string is a sequence of segments.  An absolute path starts with  *)
(* the segment Sep ("/" alone is <<Sep>>), a relative path does not, and   *)
(* the empty string is <<>>.  The process runs with "/" as its working     *)
(* directory.                                                              *)
(***************************************************************************)
EXTENDS Naturals, Sequences, FiniteSets, TLC

\* ------------------------------------------------------------------ bounds

\* Total number of directive lines over all documents of the tree.
MaxRefs == 3

\* The invocations of the command on one tree: a dry run, the real run and
\* a second real run.
Runs == 3

\* ------------------------------------------------------------- os.path

Sep == "/"

cwd == <<Sep>>

IsAbs(p) == p /= <<>> /\ p[1] = Sep

\* os.path.dirname: dirname("/") = "/", dirname("/a") = "/", dirname("a") = "".
dirname(p) ==
    IF p = <<>> THEN <<>>
    ELSE IF IsAbs(p) /\ Len(p) <= 2 THEN <<Sep>>
    ELSE SubSeq(p, 1, Len(p) - 1)

\* os.path.join of two path strings.
join(a, b) ==
    IF IsAbs(b) THEN b
    ELSE IF a = <<>> THEN b
    ELSE a \o b

\* The segments of a path with "." dropped and "name/.." collapsed; a leading
\* ".." is dropped on an absolute path and kept on a relative one.
RECURSIVE NormSegs(_, _, _)
NormSegs(segs, acc, abs) ==
    IF segs = <<>> THEN acc
    ELSE LET s == Head(segs)
             rest == Tail(segs)
         IN  IF s = "." THEN NormSegs(rest, acc, abs)
             ELSE IF s = ".."
                  THEN IF acc /= <<>> /\ acc[Len(acc)] /= ".."
                       THEN NormSegs(rest, SubSeq(acc, 1, Len(acc) - 1), abs)
                       ELSE IF abs THEN NormSegs(rest, acc, abs)
                            ELSE NormSegs(rest, Append(acc, s), abs)
                  ELSE NormSegs(rest, Append(acc, s), abs)

\* os.path.normpath.
normpath(p) ==
    IF IsAbs(p) THEN <<Sep>> \o NormSegs(Tail(p), <<>>, TRUE)
    ELSE LET r == NormSegs(p, <<>>, FALSE)
         IN  IF r = <<>> THEN <<".">> ELSE r

\* os.path.abspath.
abspath(p) == normpath(join(cwd, p))

\* d.count(os.sep): the sort key of remove_empty_dirs.
CountSep(d) ==
    IF d = <<>> THEN 0
    ELSE IF IsAbs(d) /\ Len(d) = 1 THEN 1
    ELSE Len(d) - 1

\* ------------------------------------------------------------ the tree
\* The tree of the repository's include tests, with one more asset in a
\* directory beside docs/:
\*     /docs/main1.rst  /docs/main2.rst
\*     /docs/inc/shared.rst
\*     /docs/inc/img/x.png
\*     /ext/y.png

TopDir == <<Sep>>
DocsDir == <<Sep, "docs">>
IncDir == <<Sep, "docs", "inc">>
ImgDir == <<Sep, "docs", "inc", "img">>
ExtDir == <<Sep, "ext">>

Main1 == <<Sep, "docs", "main1.rst">>
Main2 == <<Sep, "docs", "main2.rst">>
Shared == <<Sep, "docs", "inc", "shared.rst">>
ImgX == <<Sep, "docs", "inc", "img", "x.png">>
ImgY == <<Sep, "ext", "y.png">>

Docs == {Main1, Main2, Shared}
Assets == {ImgX, ImgY}
AllFiles == Docs \cup Assets
AllDirs == {TopDir, DocsDir, IncDir, ImgDir, ExtDir}

\* The file names file.endswith(".rst") accepts.
RstNames == {"main1.rst", "main2.rst", "shared.rst"}

endswith_rst(p) == p /= <<>> /\ p[Len(p)] \in RstNames

\* The path string of an absolute path as seen from the working directory.
Relative(p) == Tail(p)

\* ------------------------------------------------------------- the state

VARIABLES
    files,          \* the regular files on disk (absolute paths)
    dirs,           \* the directories on disk (absolute paths)
    content,        \* each document's directive lines, in file order
    listing,        \* per directory walked, the order in which scandir yields its .rst files
    entry,          \* the function called: "execute" or "remove_empty_dirs"
    args,           \* [path, dry_run]: the command's arguments
    run,            \* the number of this invocation on the tree
    pc,             \* where the invocation is
    original_path,  \* execute's original_path
    rst_files,      \* the list find_rst_files returned
    index,          \* what build_asset_index returned
    cur,            \* position in file_to_assets.items() of the document being deleted
    pending,        \* the assets of that document not yet visited
    deleted_pages, deleted_assets, affected_dirs,
    printed,        \* the "[dry-run] Would delete" lines printed so far
    walk_left,      \* affected directories whose ancestors are not yet added
    parent,         \* the ancestor walk's variable
    all_dirs,
    sweep_left,     \* directories of sorted_dirs not yet evaluated
    deleted_dirs,
    start           \* the tree at the start of this invocation, and the dry run's report

vars == <<files, dirs, content, listing, entry, args, run, pc, original_path,
          rst_files, index, cur, pending, deleted_pages, deleted_assets,
          affected_dirs, printed, walk_left, parent, all_dirs, sweep_left,
          deleted_dirs, start>>

\* ------------------------------------------------------- the file system

\* os.path.exists / isfile / isdir; the empty string names nothing.
exists(p) == p /= <<>> /\ abspath(p) \in files \cup dirs

isfile(p) == p /= <<>> /\ abspath(p) \in files

isdir(p) == p /= <<>> /\ abspath(p) \in dirs

\* os.listdir: the entries of a directory.
listdir(p) == {q \in (files \cup dirs) \ {TopDir} : dirname(q) = abspath(p)}

\* A set as a sequence, in a fixed order.
RECURSIVE SetToSeq(_)
SetToSeq(S) ==
    IF S = {} THEN <<>>
    ELSE LET x == CHOOSE y \in S : TRUE IN <<x>> \o SetToSeq(S \ {x})

\* The elements of a sequence.
Range(s) == {s[i] : i \in DOMAIN s}

\* A map with one key set.
Put(f, k, v) == [x \in DOMAIN f \cup {k} |-> IF x = k THEN v ELSE f[x]]

\* dict.get(k, default).
Get(f, k, default) == IF k \in DOMAIN f THEN f[k] ELSE default

EmptyMap == [x \in {} |-> {}]

\* ----------------------------------------------------------- documents

\* The patterns of DIRECTIVE_PATTERNS, in the order the dict is iterated.
DIRECTIVE_PATTERNS == <<"image", "figure", "include">>

\* The sequences over S without repetition.
InjSeqs(S) ==
    {s \in UNION {[1..n -> S] : n \in 0..Cardinality(S)} :
        \A i, j \in DOMAIN s : i /= j => s[i] /= s[j]}

\* The permutations of S.
Perms(S) == {s \in InjSeqs(S) : Len(s) = Cardinality(S)}

RECURSIVE CommonLen(_, _)
CommonLen(a, b) ==
    IF a = <<>> \/ b = <<>> \/ Head(a) /= Head(b) THEN 0
    ELSE 1 + CommonLen(Tail(a), Tail(b))

\* The reference a document writes to name a file: the path of the file
\* relative to the document's directory, with ".." to go up.
RefTo(doc, target) ==
    LET d == dirname(doc)
        c == CommonLen(d, target)
    IN  [i \in 1..(Len(d) - c) |-> ".."] \o SubSeq(target, c + 1, Len(target))

\* What one document may hold: image lines naming assets, then include
\* lines naming documents (itself too).
DocContents(doc) ==
    {[j \in 1..Len(im) |-> [directive |-> "image", path |-> im[j]]]
       \o [j \in 1..Len(inc) |-> [directive |-> "include", path |-> inc[j]]] :
        im \in {SetToSeq(S) : S \in SUBSET {RefTo(doc, a) : a \in Assets}},
        inc \in InjSeqs({RefTo(doc, d) : d \in Docs})}

\* The contents of the tree's documents, at most MaxRefs lines in all.
Contents ==
    UNION {UNION {{[d \in Docs |-> IF d = Main1 THEN a ELSE IF d = Main2 THEN b ELSE s] :
                      s \in {x \in DocContents(Shared) :
                                Len(a) + Len(b) + Len(x) <= MaxRefs}} :
                  b \in {x \in DocContents(Main2) : Len(a) + Len(x) <= MaxRefs}} :
           a \in {x \in DocContents(Main1) : Len(x) <= MaxRefs}}

\* The .rst file names of a directory of the tree.
DocNamesIn(d) == {f[Len(f)] : f \in {g \in Docs : dirname(g) = d}}

\* The orders in which the directories may list their .rst files; docs/ is
\* the one directory of the tree with more than one.
Listings ==
    {[d \in AllDirs |-> IF d = DocsDir THEN p ELSE SetToSeq(DocNamesIn(d))] :
        p \in Perms(DocNamesIn(DocsDir))}

\* os.walk(top), top-down, keeping the .rst files: a directory's files in
\* the order scandir lists them (lst), then its subdirectories.
RECURSIVE WalkRst(_, _)
WalkRst(top, lst) ==
    IF ~isdir(top) THEN <<>>
    ELSE LET here == abspath(top)
             names == SelectSeq(lst[here], LAMBDA n : (here \o <<n>>) \in files)
             subs == SetToSeq({d \in dirs \ {TopDir} : dirname(d) = here})
             Below[i \in 0..Len(subs)] ==
                 IF i = 0 THEN <<>>
                 ELSE Below[i - 1] \o WalkRst(top \o <<subs[i][Len(subs[i])]>>, lst)
         IN  [i \in 1..Len(names) |-> top \o <<names[i]>>] \o Below[Len(subs)]

find_rst_files(path, lst) ==
    IF isfile(path) /\ endswith_rst(path) THEN <<path>> ELSE WalkRst(path, lst)

\* The directories os.walk(path) lists.
RECURSIVE Below(_, _)
Below(d, top) == d = top \/ (d /= TopDir /\ Below(dirname(d), top))

Walked(path) ==
    IF isfile(path) /\ endswith_rst(path) THEN {}
    ELSE {d \in dirs : Below(d, abspath(path))}

\* dict[k] = v on a dict kept as the sequence of its items.
DictSet(items, k, v) ==
    IF \E i \in DOMAIN items : items[i].path = k
    THEN [i \in DOMAIN items |->
             IF items[i].path = k THEN [path |-> k, directive |-> v] ELSE items[i]]
    ELSE Append(items, [path |-> k, directive |-> v])

\* The items of the dict extract_assets returns, in insertion order.
extract_assets(file_path) ==
    IF ~exists(file_path) \/ ~isfile(file_path) THEN <<>>
    ELSE LET lines == content[abspath(file_path)]
             base == dirname(file_path)
             ByPattern[d \in 0..Len(DIRECTIVE_PATTERNS)] ==
                 IF d = 0 THEN <<>>
                 ELSE LET found == SelectSeq(lines,
                              LAMBDA l : l.directive = DIRECTIVE_PATTERNS[d])
                          Add[j \in 0..Len(found)] ==
                              IF j = 0 THEN ByPattern[d - 1]
                              ELSE DictSet(Add[j - 1],
                                           normpath(join(base, found[j].path)),
                                           DIRECTIVE_PATTERNS[d])
                      IN  Add[Len(found)]
         IN  ByPattern[Len(DIRECTIVE_PATTERNS)]


\* ------------------------------------------------------ build_asset_index

\* First pass: the direct assets of each document, the directive of each
\* asset and the include graph (the include targets that exist on disk).
first_pass(rsts) ==
    LET Step[i \in 0..Len(rsts)] ==
            IF i = 0
            THEN [file_to_assets |-> EmptyMap, keys |-> <<>>,
                  asset_directive_map |-> EmptyMap, include_graph |-> EmptyMap]
            ELSE LET st == Step[i - 1]
                     rst == rsts[i]
                     items == extract_assets(rst)
                     incs == SelectSeq(items,
                                 LAMBDA it : it.directive = "include" /\ exists(it.path))
                     Dir[j \in 0..Len(items)] ==
                         IF j = 0 THEN st.asset_directive_map
                         ELSE Put(Dir[j - 1], items[j].path, items[j].directive)
                 IN  [file_to_assets |->
                          Put(st.file_to_assets, rst, {items[j].path : j \in DOMAIN items}),
                      keys |-> IF rst \in Range(st.keys) THEN st.keys
                               ELSE Append(st.keys, rst),
                      asset_directive_map |-> Dir[Len(items)],
                      include_graph |->
                          IF incs = <<>> THEN st.include_graph
                          ELSE Put(st.include_graph, rst,
                                   [j \in 1..Len(incs) |-> incs[j].path])]
    IN  Step[Len(rsts)]

\* process_includes(file_path) on the state st = [file_to_assets, keys,
\* processed, expanded]; the result carries the returned set as ret.
\* expanded lists the documents whose body (lines 110-122) was run, in order.
RECURSIVE process_includes(_, _, _)
process_includes(file_path, st, include_graph) ==
    IF file_path \in st.processed
    THEN [st EXCEPT !.ret = Get(st.file_to_assets, file_path, {})]
    ELSE LET incs == Get(include_graph, file_path, <<>>)
             Loop[i \in 0..Len(incs)] ==
                 IF i = 0
                 THEN [st EXCEPT !.processed = @ \cup {file_path},
                                 !.expanded = Append(@, file_path),
                                 !.ret = Get(st.file_to_assets, file_path, {})]
                 ELSE LET before == Loop[i - 1]
                      IN  IF incs[i] \notin before.processed
                          THEN LET sub == process_includes(incs[i], before, include_graph)
                               IN  [sub EXCEPT !.ret = before.ret \cup sub.ret]
                          ELSE before
             after == Loop[Len(incs)]
         IN  [file_to_assets |-> Put(after.file_to_assets, file_path, after.ret),
              keys |-> IF file_path \in Range(after.keys) THEN after.keys
                       ELSE Append(after.keys, file_path),
              processed |-> after.processed,
              expanded |-> after.expanded,
              ret |-> after.ret]

\* second_pass with a processed set that starts empty for every document
\* of the list.
second_pass_fresh_processed(rsts, first) ==
    LET Step[i \in 0..Len(rsts)] ==
            IF i = 0
            THEN [file_to_assets |-> first.file_to_assets, keys |-> first.keys,
                  processed |-> {}, expanded |-> <<>>, ret |-> {}]
            ELSE process_includes(rsts[i], [Step[i - 1] EXCEPT !.processed = {}],
                                  first.include_graph)
    IN  Step[Len(rsts)]

\* Second pass: process_includes on every document of the list, in order.
second_pass(rsts, first) ==
    LET Step[i \in 0..Len(rsts)] ==
            IF i = 0
            THEN [file_to_assets |-> first.file_to_assets, keys |-> first.keys,
                  processed |-> {}, expanded |-> <<>>, ret |-> {}]
            ELSE process_includes(rsts[i], Step[i - 1], first.include_graph)
    IN  Step[Len(rsts)]

\* Third pass: the reverse index.
reverse_index(file_to_assets) ==
    LET all == UNION {file_to_assets[f] : f \in DOMAIN file_to_assets}
    IN  [a \in all |-> {f \in DOMAIN file_to_assets : a \in file_to_assets[f]}]

\* build_asset_index(rst_files); keys is the order of file_to_assets.items(),
\* expanded the documents process_includes expanded, in order.
build_asset_index(rsts) ==
    LET first == first_pass(rsts)
        second == second_pass(rsts, first)
    IN  [asset_to_files |-> reverse_index(second.file_to_assets),
         file_to_assets |-> second.file_to_assets,
         keys |-> second.keys,
         asset_directive_map |-> first.asset_directive_map,
         expanded |-> second.expanded]

NoIndex ==
    [asset_to_files |-> EmptyMap, file_to_assets |-> EmptyMap, keys |-> <<>>,
     asset_directive_map |-> EmptyMap, expanded |-> <<>>]


\* ------------------------------------------ delete_unused_assets_and_pages

\* The test of lines 149-153: no asset of the set has a second referencing file.
all_unique(idx, assets) ==
    \A asset \in assets : ~(Cardinality(idx.asset_to_files[asset]) > 1)

\* qualifies without the skip of the documents that have no asset.
qualifies_without_skip(idx, rst_file) ==
    all_unique(idx, idx.file_to_assets[rst_file])

\* The documents whose assets and page the loop removes.
qualifies(idx, rst_file) ==
    /\ idx.file_to_assets[rst_file] /= {}
    /\ all_unique(idx, idx.file_to_assets[rst_file])

\* The first position from i on in file_to_assets.items() that qualifies,
\* Len + 1 when there is none.
next_doc(idx, i) ==
    LET later == {j \in i..Len(idx.keys) : qualifies(idx, idx.keys[j])}
    IN  IF later = {} THEN Len(idx.keys) + 1
        ELSE CHOOSE j \in later : \A k \in later : j <= k

\* Leaving the loop: execute calls remove_empty_dirs when a directory was affected.
AfterDelete(aff) ==
    IF aff /= {}
    THEN /\ pc' = "walk"
         /\ walk_left' = aff
         /\ all_dirs' = aff
    ELSE /\ pc' = "done"
         /\ UNCHANGED <<walk_left, all_dirs>>

\* execute up to the first removal: find_rst_files, build_asset_index and
\* the documents the deletion loop skips.
Execute ==
    /\ pc = "start"
    /\ entry = "execute"
    /\ original_path' = abspath(args.path)
    /\ \E lst \in (IF run = 1 THEN Listings ELSE {listing}) :
        /\ rst_files' = find_rst_files(args.path, lst)
        /\ listing' = [d \in Walked(args.path) \cap DOMAIN lst |-> lst[d]]
    /\ IF rst_files' = <<>>
       THEN /\ index' = NoIndex
            /\ pc' = "done"
            /\ UNCHANGED <<cur, pending, walk_left, all_dirs>>
       ELSE /\ index' = build_asset_index(rst_files')
            /\ cur' = next_doc(index', 1)
            /\ IF cur' <= Len(index'.keys)
               THEN /\ pending' = index'.file_to_assets[index'.keys[cur']]
                    /\ pc' = "delete"
                    /\ UNCHANGED <<walk_left, all_dirs>>
               ELSE /\ pending' = {}
                    /\ AfterDelete({})
    /\ UNCHANGED <<files, dirs, content, entry, args, run, deleted_pages,
                   deleted_assets, affected_dirs, printed, parent, sweep_left,
                   deleted_dirs, start>>

\* remove_asset with a dry run that prints no line for an asset.
remove_asset_quiet(asset) ==
    IF exists(asset) /\ ~args.dry_run
    THEN /\ affected_dirs' = affected_dirs \cup {dirname(asset)}
         /\ files' = files \ {abspath(asset)}
         /\ deleted_assets' = Append(deleted_assets, asset)
         /\ UNCHANGED printed
    ELSE UNCHANGED <<files, affected_dirs, deleted_assets, printed>>

\* The body of the loop over a qualifying document's assets (lines 158-165).
remove_asset(asset) ==
    IF exists(asset)
    THEN IF args.dry_run
         THEN /\ printed' = Append(printed,
                     [what |-> Get(index.asset_directive_map, asset, "asset"),
                      path |-> asset])
              /\ UNCHANGED <<files, affected_dirs, deleted_assets>>
         ELSE /\ affected_dirs' = affected_dirs \cup {dirname(asset)}
              /\ files' = files \ {abspath(asset)}
              /\ deleted_assets' = Append(deleted_assets, asset)
              /\ UNCHANGED printed
    ELSE UNCHANGED <<files, affected_dirs, deleted_assets, printed>>

\* One turn of the loop over a qualifying document's assets, a set, in any order.
RemoveAsset ==
    /\ pc = "delete"
    /\ \E asset \in pending :
        /\ pending' = pending \ {asset}
        /\ remove_asset(asset)
    /\ UNCHANGED <<dirs, content, listing, entry, args, run, pc, original_path,
                   rst_files, index, cur, deleted_pages, walk_left, parent,
                   all_dirs, sweep_left, deleted_dirs, start>>

\* remove_page without the test of dry_run.
remove_page_for_real(rst_file) ==
    IF exists(rst_file)
    THEN /\ affected_dirs' = affected_dirs \cup {dirname(rst_file)}
         /\ files' = files \ {abspath(rst_file)}
         /\ deleted_pages' = Append(deleted_pages, rst_file)
         /\ UNCHANGED printed
    ELSE UNCHANGED <<files, affected_dirs, deleted_pages, printed>>

\* The removal of the document itself (lines 168-174).
remove_page(rst_file) ==
    IF exists(rst_file)
    THEN IF args.dry_run
         THEN /\ printed' = Append(printed, [what |-> "page", path |-> rst_file])
              /\ UNCHANGED <<files, affected_dirs, deleted_pages>>
         ELSE /\ affected_dirs' = affected_dirs \cup {dirname(rst_file)}
              /\ files' = files \ {abspath(rst_file)}
              /\ deleted_pages' = Append(deleted_pages, rst_file)
              /\ UNCHANGED printed
    ELSE UNCHANGED <<files, affected_dirs, deleted_pages, printed>>

\* The document is removed once its assets are, then the loop goes on to the
\* next qualifying document or ends.
RemovePage ==
    /\ pc = "delete"
    /\ pending = {}
    /\ remove_page(index.keys[cur])
    /\ cur' = next_doc(index, cur + 1)
    /\ IF cur' <= Len(index.keys)
       THEN /\ pending' = index.file_to_assets[index.keys[cur']]
            /\ UNCHANGED <<pc, walk_left, all_dirs>>
       ELSE /\ pending' = {}
            /\ AfterDelete(affected_dirs')
    /\ UNCHANGED <<dirs, content, listing, entry, args, run, original_path,
                   rst_files, index, deleted_assets, parent, sweep_left,
                   deleted_dirs, start>>

\* ------------------------------------------------------- remove_empty_dirs

\* The condition of the while loop of line 188.
walk_continues(p) == p /= <<>> /\ exists(p) /\ p /= original_path

\* for dir_path in dirs: parent = os.path.dirname(dir_path) (lines 185-187).
WalkNext ==
    /\ pc = "walk"
    /\ ~walk_continues(parent)
    /\ \E dir_path \in walk_left :
        /\ walk_left' = walk_left \ {dir_path}
        /\ parent' = dirname(dir_path)
    /\ UNCHANGED <<files, dirs, content, listing, entry, args, run, pc,
                   original_path, rst_files, index, cur, pending, deleted_pages,
                   deleted_assets, affected_dirs, printed, all_dirs, sweep_left,
                   deleted_dirs, start>>

\* One turn of the while loop (lines 188-190).
WalkUp ==
    /\ pc = "walk"
    /\ walk_continues(parent)
    /\ all_dirs' = all_dirs \cup {parent}
    /\ parent' = dirname(parent)
    /\ UNCHANGED <<files, dirs, content, listing, entry, args, run, pc,
                   original_path, rst_files, index, cur, pending, deleted_pages,
                   deleted_assets, affected_dirs, printed, walk_left, sweep_left,
                   deleted_dirs, start>>

\* The end of the for loop: sorted_dirs is computed (line 193).
WalkEnd ==
    /\ pc = "walk"
    /\ ~walk_continues(parent)
    /\ walk_left = {}
    /\ pc' = "sweep"
    /\ sweep_left' = all_dirs
    /\ parent' = <<>>
    /\ UNCHANGED <<files, dirs, content, listing, entry, args, run,
                   original_path, rst_files, index, cur, pending, deleted_pages,
                   deleted_assets, affected_dirs, printed, walk_left, all_dirs,
                   deleted_dirs, start>>

\* The directory is removed when it exists and has no entry (lines 197-206).
\* os.rmdir on a directory of d, or the line a dry run prints.
rmdir_or_print(d) ==
    IF args.dry_run
    THEN /\ printed' = Append(printed, [what |-> "empty directory", path |-> d])
         /\ UNCHANGED <<dirs, deleted_dirs>>
    ELSE /\ dirs' = dirs \ {abspath(d)}
         /\ deleted_dirs' = Append(deleted_dirs, d)
         /\ UNCHANGED printed

\* One turn of the loop over sorted_dirs, deepest first (lines 196-206); the
\* sort leaves directories with the same count of separators in any order.
SweepStep ==
    /\ pc = "sweep"
    /\ \E dir_path \in sweep_left :
        /\ \A other \in sweep_left : CountSep(other) <= CountSep(dir_path)
        /\ sweep_left' = sweep_left \ {dir_path}
        /\ IF exists(dir_path) /\ isdir(dir_path) /\ listdir(dir_path) = {}
           THEN rmdir_or_print(dir_path)
           ELSE UNCHANGED <<dirs, deleted_dirs, printed>>
    /\ UNCHANGED <<files, content, listing, entry, args, run, pc, original_path,
                   rst_files, index, cur, pending, deleted_pages, deleted_assets,
                   affected_dirs, walk_left, parent, all_dirs, start>>

\* The check of the original path after the loop (lines 210-217).
RootCheck ==
    /\ pc = "sweep"
    /\ sweep_left = {}
    /\ IF isdir(original_path) /\ listdir(original_path) = {}
       THEN rmdir_or_print(original_path)
       ELSE UNCHANGED <<dirs, deleted_dirs, printed>>
    /\ pc' = "done"
    /\ UNCHANGED <<files, content, listing, entry, args, run, original_path,
                   rst_files, index, cur, pending, deleted_pages, deleted_assets,
                   affected_dirs, walk_left, parent, all_dirs, sweep_left, start>>

\* ------------------------------------------------------------ invocations

\* The command is run again on the tree the invocation left: for real after
\* the dry run, and once more after that.  What the dry run printed is kept
\* for comparison, as the set of its lines.
Rerun ==
    /\ pc = "done"
    /\ entry = "execute"
    /\ run < Runs
    /\ run' = run + 1
    /\ args' = [args EXCEPT !.dry_run = FALSE]
    /\ pc' = "start"
    /\ start' = [files |-> files, dirs |-> dirs,
                 printed |-> IF args.dry_run THEN Range(printed) ELSE start.printed]
    /\ rst_files' = <<>>
    /\ index' = NoIndex
    /\ cur' = 0
    /\ pending' = {}
    /\ deleted_pages' = <<>>
    /\ deleted_assets' = <<>>
    /\ affected_dirs' = {}
    /\ printed' = <<>>
    /\ walk_left' = {}
    /\ parent' = <<>>
    /\ all_dirs' = {}
    /\ sweep_left' = {}
    /\ deleted_dirs' = <<>>
    /\ UNCHANGED <<files, dirs, content, listing, entry, original_path>>

\* The paths the command is given: the docs directory, a directory below
\* it or a single document, each as an absolute and as a relative path.
Invocations ==
    {DocsDir, IncDir, Main1} \cup {Relative(p) : p \in {DocsDir, IncDir, Main1}}

NoContent == [d \in Docs |-> <<>>]

\* execute(args) on the whole tree, first as a dry run.
InitExecute ==
    /\ files = AllFiles
    /\ dirs = AllDirs
    /\ content \in Contents
    /\ listing = EmptyMap
    /\ entry = "execute"
    /\ args \in [path : Invocations, dry_run : {TRUE}]
    /\ run = 1
    /\ pc = "start"
    /\ original_path = <<>>
    /\ rst_files = <<>>
    /\ index = NoIndex
    /\ cur = 0
    /\ pending = {}
    /\ deleted_pages = <<>>
    /\ deleted_assets = <<>>
    /\ affected_dirs = {}
    /\ printed = <<>>
    /\ walk_left = {}
    /\ parent = <<>>
    /\ all_dirs = {}
    /\ sweep_left = {}
    /\ deleted_dirs = <<>>
    /\ start = [files |-> files, dirs |-> dirs, printed |-> {}]

\* remove_empty_dirs(dirs, original_path, dry_run) called on its own, as the
\* tests do, on a tree with any of the files present.
InitRemoveEmptyDirs ==
    /\ files \in SUBSET AllFiles
    /\ dirs = AllDirs
    /\ content = NoContent
    /\ listing = EmptyMap
    /\ entry = "remove_empty_dirs"
    /\ args \in [path : {TopDir, DocsDir, IncDir}, dry_run : BOOLEAN]
    /\ run = 1
    /\ pc = "walk"
    /\ original_path = args.path
    /\ rst_files = <<>>
    /\ index = NoIndex
    /\ cur = 0
    /\ pending = {}
    /\ deleted_pages = <<>>
    /\ deleted_assets = <<>>
    /\ affected_dirs \in (SUBSET (AllDirs \ {TopDir})) \ {{}}
    /\ printed = <<>>
    /\ walk_left = affected_dirs
    /\ parent = <<>>
    /\ all_dirs = affected_dirs
    /\ sweep_left = {}
    /\ deleted_dirs = <<>>
    /\ start = [files |-> files, dirs |-> dirs, printed |-> {}]

Init == InitExecute \/ InitRemoveEmptyDirs

Next ==
    \/ Execute
    \/ RemoveAsset
    \/ RemovePage
    \/ WalkNext
    \/ WalkUp
    \/ WalkEnd
    \/ SweepStep
    \/ RootCheck
    \/ Rerun

Spec == Init /\ [][Next]_vars


\* ==================================================================== claims
\* What the claims speak of, computed from the tree and not from the index.

\* The files the lines of a document name.
Named(doc) == {normpath(join(dirname(doc), l.path)) : l \in Range(content[doc])}

\* The documents a document includes that were on disk when the invocation began.
IncludedBy(doc) ==
    {normpath(join(dirname(doc), l.path)) :
        l \in {m \in Range(content[doc]) : m.directive = "include"}}
    \cap start.files \cap Docs

\* The documents reached from a set of documents through include lines.
RECURSIVE ReachFrom(_, _)
ReachFrom(frontier, seen) ==
    IF frontier \subseteq seen THEN seen
    ELSE ReachFrom(UNION {IncludedBy(d) : d \in frontier \ seen}, seen \cup frontier)

\* The files a document references, directly or through includes.
Referenced(doc) == UNION {Named(d) : d \in ReachFrom({doc}, {})}

\* The scanned documents, and those among them that reference a file.
Scanned == {abspath(r) : r \in Range(rst_files)}

Referrers(f) == {d \in Scanned : f \in Referenced(d)}

\* The first real run of the command on the tree.
RealRun == entry = "execute" /\ ~args.dry_run /\ run = 2

\* The loop of line 188 repeats without changing anything: dirname(parent)
\* is parent, and the loop's condition holds.
Diverged ==
    /\ pc = "walk"
    /\ walk_continues(parent)
    /\ dirname(parent) = parent
    /\ parent \in all_dirs

\* The invocation has returned, or will never do anything more.
Finished == pc = "done" \/ Diverged

\* The deletion loop has ended.
Deleted == pc \in {"walk", "sweep", "done"}

DirRoots == {DocsDir, IncDir, Relative(DocsDir), Relative(IncDir)}

IncludeLine(from, to) == [directive |-> "include", path |-> RefTo(from, to)]

ImageLine(from, to) == [directive |-> "image", path |-> RefTo(from, to)]

\* C1: in a real run, a file referenced, directly or through includes, by
\* two or more of the scanned documents is never removed.
C1_SharedFileSurvives ==
    RealRun =>
        \A f \in start.files : Cardinality(Referrers(f)) >= 2 => f \in files

\* C2: main1.rst and main2.rst both include inc/shared.rst, which shows
\* img/x.png; a real run on main1.rst alone removes main1.rst and leaves
\* main2.rst, shared.rst, x.png and every directory.
C2_SharedIncludePreserved ==
    (/\ RealRun
     /\ args.path \in {Main1, Relative(Main1)}
     /\ content = [d \in Docs |->
                      IF d = Shared THEN <<ImageLine(Shared, ImgX)>>
                      ELSE <<IncludeLine(d, Shared)>>])
    => /\ {Main2, Shared, ImgX} \subseteq files
       /\ dirs = AllDirs
       /\ Finished => Main1 \notin files

\* C3: once the deletion loop of a real run has ended, a scanned document
\* with assets is gone exactly when each of its assets has it as only
\* referencing document, and a document with an asset it shares is on disk
\* with all its assets.
C3_DeletedIffAllUnique ==
    (RealRun /\ Deleted) =>
        \A d \in Range(rst_files) :
            LET assets == index.file_to_assets[d]
                own == \A a \in assets :
                          {r \in Range(rst_files) : a \in index.file_to_assets[r]} = {d}
            IN  assets /= {} =>
                    /\ abspath(d) \notin files <=> own
                    /\ ~own => /\ abspath(d) \in files
                               /\ \A a \in assets :
                                     abspath(a) \in start.files => abspath(a) \in files

\* C4 as stated: a scanned document that references nothing is never
\* removed from disk.
C4_EmptyNeverRemoved ==
    (entry = "execute" /\ pc /= "start") =>
        \A d \in Range(rst_files) :
            Referenced(abspath(d)) = {} => abspath(d) \in files

\* C4 as amended: a scanned document that references nothing is never
\* removed as a page (it is in no "Would delete page" line and not in
\* deleted_pages); when it is removed, it is as an asset of a document that
\* references it.
C4_EmptyNeverDeletedAsPage ==
    (entry = "execute" /\ pc /= "start") =>
        \A d \in Range(rst_files) :
            Referenced(abspath(d)) = {} =>
                /\ d \notin Range(deleted_pages)
                /\ [what |-> "page", path |-> d] \notin Range(printed)
                /\ abspath(d) \notin files => d \in Range(deleted_assets)

C4_Witness ==
    /\ RealRun
    /\ pc = "done"
    /\ \E d \in Range(rst_files) :
        /\ Referenced(abspath(d)) = {}
        /\ d \in Range(deleted_assets)
        /\ abspath(d) \notin files

\* C5: a document includes another one, and nothing else references the
\* included document or what it shows; after a real run on docs/ both
\* documents and the assets of the included one are gone and no directory
\* of the tree under docs/ is left empty.
C5_IncludeRemovedWithIncluder ==
    \A a, b \in Docs :
        (/\ RealRun
         /\ Finished
         /\ args.path \in {DocsDir, Relative(DocsDir)}
         /\ a /= b
         /\ content[a] = <<IncludeLine(a, b)>>
         /\ \A l \in Range(content[b]) : l.directive = "image"
         /\ \A c \in Docs \ {a, b} : content[c] = <<>>)
        => /\ ({a, b} \cup Named(b)) \cap files = {}
           /\ \A d \in dirs : Below(d, original_path) => listdir(d) /= {}

\* C6: a dry run changes no file and no directory and returns empty lists.
C6_DryRunChangesNothing ==
    args.dry_run =>
        /\ files = start.files
        /\ dirs = start.dirs
        /\ deleted_pages = <<>>
        /\ deleted_assets = <<>>
        /\ deleted_dirs = <<>>

C6_Witness ==
    /\ entry = "execute"
    /\ args.dry_run
    /\ pc = "done"
    /\ \E i, j \in DOMAIN printed : printed[i].what = "page" /\ printed[j].what = "image"

\* C7: the files the dry run named in its "Would delete" lines are the
\* files the real run on the same tree has removed when its loop ends.
C7_DryRunNamesWhatIsRemoved ==
    (entry = "execute" /\ run = 2 /\ Deleted) =>
        {abspath(l.path) : l \in {m \in start.printed : m.what /= "empty directory"}}
            = start.files \ files

C7_Witness ==
    /\ entry = "execute"
    /\ run = 2
    /\ pc = "done"
    /\ Cardinality(start.files \ files) >= 2
    /\ \E l \in start.printed : l.what = "image"

\* C8: a second real run on the tree the first one left removes no file and
\* no directory.
C8_SecondRunRemovesNothing ==
    (entry = "execute" /\ run = 3) => (files = start.files /\ dirs = start.dirs)

\* C9: every directory remove_empty_dirs removes has no entry when it is
\* removed and is the root or lies below it.
C9_OnlyEmptyDirsUnderRoot ==
    [][\A d \in dirs :
          d \notin dirs' => (listdir(d) = {} /\ Below(d, original_path))]_vars

\* C10: when a real run on a directory has ended, no directory of the tree
\* under the root (the root too) is left without an entry.
C10_EmptiedDirsRemoved ==
    (RealRun /\ Finished /\ args.path \in DirRoots) =>
        \A d \in dirs : Below(d, original_path) => listdir(d) /= {}

\* C11: the directories the dry run named in its "Would delete empty
\* directory" lines are the directories the real run on the same tree and
\* root has removed when it returns.
C11_DryRunNamesDirsRemoved ==
    (entry = "execute" /\ run = 2 /\ pc = "done") =>
        {abspath(l.path) : l \in {m \in start.printed : m.what = "empty directory"}}
            = start.dirs \ dirs

\* C12: once build_asset_index has returned, file_to_assets of every
\* scanned document holds every file the document references, directly or
\* through includes, and asset_to_files of each such file holds the document.
C12_ExpansionIsClosure ==
    (entry = "execute" /\ pc /= "start") =>
        \A d \in Range(rst_files) :
            \A f \in Referenced(abspath(d)) :
                \E a \in index.file_to_assets[d] :
                    /\ abspath(a) = f
                    /\ a \in DOMAIN index.asset_to_files
                    /\ d \in index.asset_to_files[a]

\* The files the loop of delete_unused_assets_and_pages removes for an
\* index: the assets on disk of each qualifying document, and the document.
would_delete(idx) ==
    {abspath(f) : f \in UNION {idx.file_to_assets[k] \cup {k} :
                        k \in {r \in Range(idx.keys) : qualifies(idx, r)}}}
        \cap files

\* C13: on the tree as the first invocation found it, every order in which
\* the documents can be discovered gives the index the run computed (the
\* same file_to_assets and asset_to_files) and the same files to delete.
C13_OrderIndependent ==
    (entry = "execute" /\ run = 1 /\ pc /= "start") =>
        \A lst \in Listings :
            LET other == build_asset_index(find_rst_files(args.path, lst))
            IN  /\ other.file_to_assets = index.file_to_assets
                /\ other.asset_to_files = index.asset_to_files
                /\ would_delete(other) = would_delete(index)

\* The include targets on disk of a scanned document, as the first pass
\* records them in include_graph.
Includes(d) == {abspath(t) : t \in Range(Get(first_pass(rst_files).include_graph, d, <<>>))}

C15_AssetsGoFirst ==
    (entry = "execute" /\ ~args.dry_run) =>
        \A d \in Range(index.keys) :
            (qualifies(index, d) /\ abspath(d) \in start.files \ files) =>
                \A a \in index.file_to_assets[d] :
                    abspath(a) \in start.files => abspath(a) \notin files

\* C16: the walk over the ancestors of the affected directories always
\* stops: it never comes to a turn of the while loop of line 188 that
\* leaves parent and all_dirs as they were with the condition still true.
C16_WalkTerminates ==
    pc = "walk" => ~Diverged

====
